---------------------------- MODULE Spec2Model ----------------------------
(***************************************************************************)
(* Model of the workflow-agent repository.                                 *)
(*                                                                         *)
(*   Part I   text helpers (Python str.lower / str.upper / "in")           *)
(*   Part II  the retry workflow of demo_agent/tool-retry-example.py       *)
(*   Part III the approval graph of demo_agent/graph.py                    *)
(*   Part IV  the chat client of client/demo-app-chat.py                   *)
(*   Part V   the executeQuery tool of mcp-sever/prisma_server.py          *)
(*                                                                         *)
(* Texts are sequences of one-character strings so that the substring and  *)
(* case conversions of the source are computed, not assumed.               *)
(***************************************************************************)
EXTENDS Integers, Sequences, FiniteSets, TLC

VARIABLES
    \* ---- retry workflow (tool-retry-example.py) ----
    state,          \* the State dict of the retry graph (only the keys that are set)
    rnode,          \* node of the retry graph that runs next
    rsteps,         \* node transitions performed by this run
    slept,          \* the delays time.sleep was called with, in milliseconds, in order
    invoked,        \* number of times lookup_price was invoked
    tool_transient, \* text of the transient error this run's lookup_price raises
    tool_hard,      \* text of the hard error this run's lookup_price raises
    \* ---- approval graph (graph.py), one thread ----
    messages,        \* PrismaAgentState.messages
    protected_tools, \* PrismaAgentState.protected_tools
    yolo_mode,       \* PrismaAgentState.yolo_mode
    anode,           \* node of the agent graph that runs next (the checkpoint's next)
    via,             \* how anode was selected: start, router, edge, or a resume (fresh / duplicate)
    interrupts,      \* pending interrupts of the thread (thread_state.interrupts)
    last_decision,   \* the decision the review node has just interpreted, NoDecision otherwise
    fault,           \* exception the last run of the thread ended with, "none" otherwise
    inflight,        \* a duplicated Command(resume=...) not yet delivered, NoDecision otherwise
    executed,        \* the tool calls ToolNode has executed, in order
    interrupted,     \* ids of the AI messages an interrupt was raised for
    plans,           \* number of LLM invocations so far
    asteps,          \* node transitions performed by the current run of the agent graph
    review_entry,    \* how the review node last ran: none, first (from the router, up to
                     \* interrupt()), again (from its first line, by a resume)
    client,          \* the chat client's process: none (another caller drives the graph),
                     \* running, returned, raised
    refused,         \* the texts the client's approval prompt has refused so far
    \* ---- one call of executeQuery (prisma_server.py) ----
    qargs,           \* the arguments of the call: sql_query, description
    qpc,             \* the statement of execute_sql_query that runs next
    qconn,           \* the connection: none, open, closed
    qdb,             \* the statements the database was given, in order
    qresult          \* what the call has returned or raised so far

rvars == <<state, rnode, rsteps, slept, invoked, tool_transient, tool_hard>>

avars == <<messages, protected_tools, yolo_mode, anode, via, interrupts,
           last_decision, fault, inflight, executed, interrupted, plans,
           asteps, review_entry, client, refused>>

qvars == <<qargs, qpc, qconn, qdb, qresult>>

vars == <<rvars, avars, qvars>>

\* A decision is the dict given to Command(resume=...): its "action" and its
\* "data" (None, or a text).
NoneData == [is_none |-> TRUE, text |-> ""]
Text(t) == [is_none |-> FALSE, text |-> t]
NoDecision == [action |-> "<none>", data |-> NoneData]

\* The agent graph has not been started (the retry workflow is what runs).
AgentNotStarted ==
    /\ messages = <<>> /\ protected_tools = <<>> /\ yolo_mode = TRUE
    /\ anode = "START" /\ via = "none" /\ interrupts = <<>>
    /\ last_decision = NoDecision /\ fault = "none" /\ inflight = NoDecision
    /\ executed = <<>> /\ interrupted = {} /\ plans = 0 /\ asteps = 0
    /\ review_entry = "none" /\ client = "none" /\ refused = {}

\* The retry workflow has not been started (the agent graph is what runs).
RetryNotStarted ==
    /\ state = <<>> /\ rnode = "START" /\ rsteps = 0 /\ slept = <<>>
    /\ invoked = 0 /\ tool_transient = <<>> /\ tool_hard = <<>>

\* No call of executeQuery is being followed.
NoResult == [kind |-> "none"]
QueryNotStarted ==
    /\ qargs = <<>> /\ qpc = "idle" /\ qconn = "none" /\ qdb = <<>> /\ qresult = NoResult


---------------------------------------------------------------------------
(* Part I: texts                                                           *)

Uppers == <<"A", "B", "C", "D", "E", "F", "G", "H", "I", "J", "K", "L", "M", "N", "O", "P", "Q", "R", "S", "T", "U", "V", "W", "X", "Y", "Z">>
Lowers == <<"a", "b", "c", "d", "e", "f", "g", "h", "i", "j", "k", "l", "m", "n", "o", "p", "q", "r", "s", "t", "u", "v", "w", "x", "y", "z">>

UpperSet == { Uppers[k] : k \in 1..Len(Uppers) }
LowerSet == { Lowers[k] : k \in 1..Len(Lowers) }

\* the lower-case form of each upper-case letter, and the reverse
ToLower == [c \in UpperSet |-> Lowers[CHOOSE k \in 1..Len(Uppers) : Uppers[k] = c]]
ToUpper == [c \in LowerSet |-> Uppers[CHOOSE k \in 1..Len(Lowers) : Lowers[k] = c]]

\* str.lower(), character by character
lower(txt) ==
    [i \in 1..Len(txt) |-> IF txt[i] \in UpperSet THEN ToLower[txt[i]] ELSE txt[i]]

\* str.upper(), character by character
upper(txt) ==
    [i \in 1..Len(txt) |-> IF txt[i] \in LowerSet THEN ToUpper[txt[i]] ELSE txt[i]]

\* Python's  needle in hay  for strings
contains(hay, needle) ==
    \E i \in 0..(Len(hay) - Len(needle)) :
        \A j \in 1..Len(needle) : hay[i + j] = needle[j]

kw_timeout   == <<"t", "i", "m", "e", "o", "u", "t">>
kw_rate      == <<"r", "a", "t", "e">>
kw_transient == <<"t", "r", "a", "n", "s", "i", "e", "n", "t">>

---------------------------------------------------------------------------
(* Part II: the retry workflow                                             *)

\* Bounds of the model.
MaxMaxAttempts == 17

\* compile(recursion_limit=50)
RecursionLimit == 50

\* State.get(key, default) on a dict that holds only the keys that were set
Get(s, key, default) == IF key \in DOMAIN s THEN s[key] ELSE default

\* Python truthiness of a dict value: absent (None) and {} are falsy
Falsy(s, key) == key \notin DOMAIN s \/ DOMAIN s[key] = {}

EmptyDict == <<>>
EmptyText == <<>>

\* ---- texts the flaky tool can raise ----
TimeoutErrorText == <<"T", "r", "a", "n", "s", "i", "e", "n", "t", " ", "t", "i", "m", "e", "o", "u", "t", " ", "t", "a", "l", "k", "i", "n", "g", " ", "t", "o", " ", "p", "r", "i", "c", "e", " ", "A", "P", "I">>
ValueErrorText   == <<"B", "a", "d", " ", "r", "e", "s", "p", "o", "n", "s", "e", " ", "s", "c", "h", "e", "m", "a", " ", "f", "r", "o", "m", " ", "p", "r", "o", "v", "i", "d", "e", "r">>

\* Texts a transient failure of the price API may carry: the source's, one that
\* matches only "rate" and only after lower-casing, one that matches "timeout"
\* only after lower-casing.
TransientTexts ==
    { TimeoutErrorText,
      <<"R", "A", "T", "E", " ", "l", "i", "m", "i", "t", " ", "h", "i", "t">>,
      <<"R", "e", "a", "d", " ", "T", "i", "m", "e", "O", "u", "t">> }

\* Texts of other failures: the source's, and two that come close to a keyword
\* without containing it.
HardTexts ==
    { ValueErrorText,
      <<"T", "i", "m", "e", "d", " ", "o", "u", "t">>,
      <<"r", "a", "t", " ", "e", "r", "r", "o", "r">> }

Tickers == { <<"n", "c", "l", "h">>, <<"M", "s", "f", "t">> }
Prices  == { "104.2", "119.99" }

\* plan_tool_call / maybe_retry: the tool call record
tool_call_msg(s) ==
    [type |-> "tool_call", tool_name |-> "lookup_price",
     arguments |-> [ticker |-> s["ticker"]]]

\* lookup_price: the outcomes one invocation can have.  A dict payload on
\* success; on failure ToolNode(handle_tool_errors=True) puts the exception
\* text in the tool message.
lookup_price_outcomes(ticker) ==
    { [type |-> "tool", content |-> [isdict |-> TRUE,
                                     value |-> [ticker |-> upper(ticker), price |-> p]]]
        : p \in Prices }
    \cup
    { [type |-> "tool", content |-> [isdict |-> FALSE, value |-> txt]]
        : txt \in {tool_transient, tool_hard} }

\* a backoff that grows by half a second per attempt instead of doubling
backoff_delay_linear(attempt) ==
    500 * (IF attempt > 0 THEN attempt ELSE 1)

\* 0.5 * (2 ** max(0, attempt - 1)) seconds, in milliseconds
backoff_delay(attempt) ==
    500 * (2 ^ (IF attempt - 1 > 0 THEN attempt - 1 ELSE 0))

\* is_tool_error_message: the text of a tool message whose content is a string
is_tool_error_message(msg) ==
    IF msg.type = "tool" /\ "content" \in DOMAIN msg /\ ~msg.content.isdict
    THEN msg.content.value
    ELSE EmptyText

UnexpectedText == <<"U", "n", "e", "x", "p", "e", "c", "t", "e", "d", " ", "t", "o", "o", "l", " ", "m", "e", "s", "s", "a", "g", "e">>
NoMessagesText == <<"N", "o", " ", "m", "e", "s", "s", "a", "g", "e", "s", " ", "a", "f", "t", "e", "r", " ", "T", "o", "o", "l", "N", "o", "d", "e">>

\* parse_tool_result whose success path does not write error
parse_tool_result_keeps_error(s) ==
    LET msgs == Get(s, "messages", <<>>) IN
    IF msgs = <<>>
    THEN [error |-> [kind |-> "internal", msg |-> NoMessagesText]]
    ELSE LET last == msgs[Len(msgs)] IN
         IF last.type = "tool" /\ "content" \in DOMAIN last /\ last.content.isdict
         THEN [data |-> last.content.value,
               last_good |-> last.content.value]
         ELSE IF is_tool_error_message(last) # EmptyText
              THEN [error |-> [kind |-> "tool_error", msg |-> is_tool_error_message(last)]]
              ELSE [error |-> [kind |-> "unknown", msg |-> UnexpectedText]]

\* parse_tool_result: the partial state the node returns
parse_tool_result(s) ==
    LET msgs == Get(s, "messages", <<>>) IN
    IF msgs = <<>>
    THEN [error |-> [kind |-> "internal", msg |-> NoMessagesText]]
    ELSE LET last == msgs[Len(msgs)] IN
         IF last.type = "tool" /\ "content" \in DOMAIN last /\ last.content.isdict
         THEN [data |-> last.content.value,
               last_good |-> last.content.value,
               error |-> EmptyDict]
         ELSE IF is_tool_error_message(last) # EmptyText
              THEN [error |-> [kind |-> "tool_error", msg |-> is_tool_error_message(last)]]
              ELSE [error |-> [kind |-> "unknown", msg |-> UnexpectedText]]

\* maybe_retry's rule with the .lower() forgotten
retryable_case_sensitive(s) ==
    LET msg == Get(s["error"], "msg", EmptyText) IN
    contains(msg, kw_timeout) \/ contains(msg, kw_rate) \/ contains(msg, kw_transient)

\* the retryability rule of maybe_retry (lines 97-98)
retryable_in_maybe_retry(s) ==
    LET msg == lower(Get(s["error"], "msg", EmptyText)) IN
    contains(msg, kw_timeout) \/ contains(msg, kw_rate) \/ contains(msg, kw_transient)

\* the retryability rule of branch_after_parse (lines 142-143)
retryable_in_branch(s) ==
    LET err == IF Falsy(s, "error") THEN EmptyDict ELSE s["error"]
        msg == lower(Get(err, "msg", EmptyText)) IN
    contains(msg, kw_timeout) \/ contains(msg, kw_rate) \/ contains(msg, kw_transient)

\* maybe_retry with the counter doubled instead of incremented by one
maybe_retry_doubling(s) ==
    IF Falsy(s, "error")
    THEN EmptyDict
    ELSE LET attempts     == 2 * (Get(s, "attempts", 0) + 1)
             max_attempts == Get(s, "max_attempts", 3) IN
         IF attempts <= max_attempts /\ retryable_in_maybe_retry(s)
         THEN [attempts |-> attempts,
               messages |-> Append(Get(s, "messages", <<>>), tool_call_msg(s))]
         ELSE [attempts |-> attempts]

\* maybe_retry: the partial state the node returns
maybe_retry(s) ==
    IF Falsy(s, "error")
    THEN EmptyDict
    ELSE LET attempts     == Get(s, "attempts", 0) + 1
             max_attempts == Get(s, "max_attempts", 3) IN
         IF attempts <= max_attempts /\ retryable_in_maybe_retry(s)
         THEN [attempts |-> attempts,
               messages |-> Append(Get(s, "messages", <<>>), tool_call_msg(s))]
         ELSE [attempts |-> attempts]

\* the delay maybe_retry sleeps before it returns, <<>> when it does not sleep
maybe_retry_sleep(s) ==
    IF Falsy(s, "error")
    THEN <<>>
    ELSE LET attempts     == Get(s, "attempts", 0) + 1
             max_attempts == Get(s, "max_attempts", 3) IN
         IF attempts <= max_attempts /\ retryable_in_maybe_retry(s)
         THEN <<backoff_delay(attempts)>>
         ELSE <<>>

Unavailable == <<"u", "n", "a", "v", "a", "i", "l", "a", "b", "l", "e">>

\* repair that returns last_good as it is, without the stale mark
repair_not_marked_stale(s) ==
    IF ~Falsy(s, "last_good")
    THEN [data |-> s["last_good"]]
    ELSE [data |-> [ticker |-> upper(s["ticker"]), price |-> "None", note |-> Unavailable]]

\* repair without the placeholder: nothing is returned when last_good is absent
repair_without_placeholder(s) ==
    IF ~Falsy(s, "last_good")
    THEN [data |-> ([stale |-> TRUE] @@ s["last_good"])]
    ELSE EmptyDict

\* repair: the partial state the node returns
repair(s) ==
    IF ~Falsy(s, "last_good")
    THEN [data |-> ([stale |-> TRUE] @@ s["last_good"])]
    ELSE [data |-> [ticker |-> upper(s["ticker"]), price |-> "None", note |-> Unavailable]]

\* branch_after_parse that sends a success to repair instead of END
branch_after_parse_repairs_success(s) ==
    IF Falsy(s, "error")
    THEN "repair"
    ELSE LET attempts     == Get(s, "attempts", 0)
             max_attempts == Get(s, "max_attempts", 3) IN
         IF retryable_in_branch(s) /\ attempts < max_attempts
         THEN "maybe_retry"
         ELSE "repair"

\* branch_after_parse with the bound off by one (attempts <= max_attempts)
branch_after_parse_inclusive(s) ==
    IF Falsy(s, "error")
    THEN "END"
    ELSE LET attempts     == Get(s, "attempts", 0)
             max_attempts == Get(s, "max_attempts", 3) IN
         IF retryable_in_branch(s) /\ attempts <= max_attempts
         THEN "maybe_retry"
         ELSE "repair"

\* branch_after_parse that retries every failure while attempts remain
branch_after_parse_unclassified(s) ==
    IF Falsy(s, "error")
    THEN "END"
    ELSE LET attempts     == Get(s, "attempts", 0)
             max_attempts == Get(s, "max_attempts", 3) IN
         IF attempts < max_attempts
         THEN "maybe_retry"
         ELSE "repair"

\* branch_after_parse: the node the conditional edge selects
branch_after_parse(s) ==
    IF Falsy(s, "error")
    THEN "END"
    ELSE LET attempts     == Get(s, "attempts", 0)
             max_attempts == Get(s, "max_attempts", 3) IN
         IF retryable_in_branch(s) /\ attempts < max_attempts
         THEN "maybe_retry"
         ELSE "repair"

\* A node's return value is written key by key over the state (no reducers).
Merge(s, update) == update @@ s

\* The inputs of a run: graph.invoke({"ticker": ..., "max_attempts": ...}),
\* with max_attempts and last_good optional.
RetryInputs ==
    { [ticker |-> t] : t \in Tickers }
    \cup { [ticker |-> t, max_attempts |-> m] : t \in Tickers, m \in (-1)..MaxMaxAttempts }
    \cup { [ticker |-> t, max_attempts |-> m, last_good |-> [ticker |-> upper(t), price |-> p]]
             : t \in Tickers, m \in 0..MaxMaxAttempts, p \in {"99.5"} }

RetryInit ==
    /\ state \in RetryInputs
    /\ rnode = "plan"
    /\ rsteps = 0
    /\ slept = <<>>
    /\ invoked = 0
    /\ tool_transient \in TransientTexts
    /\ tool_hard \in HardTexts
    /\ AgentNotStarted
    /\ QueryNotStarted

\* One node transition is allowed while the run is within the recursion limit.
CanStep == rsteps < RecursionLimit

\* node "plan"; edge plan -> tools
PlanToolCall ==
    /\ rnode = "plan" /\ CanStep
    /\ state' = Merge(state, [messages |-> Append(Get(state, "messages", <<>>), tool_call_msg(state))])
    /\ rnode' = "tools"
    /\ rsteps' = rsteps + 1
    /\ UNCHANGED <<slept, invoked, tool_transient, tool_hard>>
    /\ UNCHANGED <<avars, qvars>>

\* node "tools": ToolNode runs the call that ends the message list and puts
\* the tool message after it; edge tools -> parse.  Without a call at the end
\* of the list ToolNode has nothing to run.
ToolsNode ==
    /\ rnode = "tools" /\ CanStep
    /\ LET msgs == Get(state, "messages", <<>>) IN
       IF msgs # <<>> /\ msgs[Len(msgs)].type = "tool_call"
       THEN \E out \in lookup_price_outcomes(msgs[Len(msgs)].arguments.ticker) :
               /\ state' = Merge(state, [messages |-> Append(msgs, out)])
               /\ invoked' = invoked + 1
               /\ rnode' = "parse"
       ELSE /\ rnode' = "ToolNodeError"
            /\ UNCHANGED <<state, invoked>>
    /\ rsteps' = rsteps + 1
    /\ UNCHANGED <<slept, tool_transient, tool_hard>>
    /\ UNCHANGED <<avars, qvars>>

\* node "parse" and its conditional edge branch_after_parse
ParseToolResult ==
    /\ rnode = "parse" /\ CanStep
    /\ state' = Merge(state, parse_tool_result(state))
    /\ rnode' = branch_after_parse(state')
    /\ rsteps' = rsteps + 1
    /\ UNCHANGED <<slept, invoked, tool_transient, tool_hard>>
    /\ UNCHANGED <<avars, qvars>>

\* node "maybe_retry"; edge maybe_retry -> tools
MaybeRetry ==
    /\ rnode = "maybe_retry" /\ CanStep
    /\ slept' = slept \o maybe_retry_sleep(state)
    /\ state' = Merge(state, maybe_retry(state))
    /\ rnode' = "tools"
    /\ rsteps' = rsteps + 1
    /\ UNCHANGED <<invoked, tool_transient, tool_hard>>
    /\ UNCHANGED <<avars, qvars>>

\* node "repair"; edge repair -> END
Repair ==
    /\ rnode = "repair" /\ CanStep
    /\ state' = Merge(state, repair(state))
    /\ rnode' = "END"
    /\ rsteps' = rsteps + 1
    /\ UNCHANGED <<slept, invoked, tool_transient, tool_hard>>
    /\ UNCHANGED <<avars, qvars>>

\* The run has used its node transitions and is not at END: the executor
\* raises GraphRecursionError.
RecursionStop ==
    /\ rnode \in {"plan", "tools", "parse", "maybe_retry", "repair"}
    /\ ~CanStep
    /\ rnode' = "GraphRecursionError"
    /\ UNCHANGED <<state, rsteps, slept, invoked, tool_transient, tool_hard>>
    /\ UNCHANGED <<avars, qvars>>

RetryNext ==
    \/ PlanToolCall
    \/ ToolsNode
    \/ ParseToolResult
    \/ MaybeRetry
    \/ Repair
    \/ RecursionStop

SpecRetry == RetryInit /\ [][RetryNext]_vars

\* lookup_price either returns or raises, no node blocks for ever, and the
\* executor runs the next node as soon as the previous one returned.
SpecRetryFair == SpecRetry /\ WF_vars(RetryNext)

\* A caller applies maybe_retry once more to the state a finished run
\* returned (the graph itself has no edge that does so).
MaybeRetryAgain ==
    /\ rnode = "END"
    /\ slept' = slept \o maybe_retry_sleep(state)
    /\ state' = Merge(state, maybe_retry(state))
    /\ rnode' = "maybe_retry_again"
    /\ UNCHANGED <<rsteps, invoked, tool_transient, tool_hard>>
    /\ UNCHANGED <<avars, qvars>>

RetryAgainNext ==
    \/ RetryNext
    \/ MaybeRetryAgain

SpecRetryAgain == RetryInit /\ [][RetryAgainNext]_vars

---------------------------------------------------------------------------
(* Properties of the retry workflow                                        *)

\* Two characters that are the same letter, whatever their case.
SameLetter(a, b) ==
    a = b \/ \E k \in 1..Len(Uppers) : {a, b} = {Uppers[k], Lowers[k]}

\* txt contains kw, case-insensitively.
MatchesKeyword(txt, kw) ==
    \E i \in 0..(Len(txt) - Len(kw)) :
        \A j \in 1..Len(kw) : SameLetter(txt[i + j], kw[j])

\* The transient class of the specification: timeout, rate, transient.
TransientClass(txt) ==
    \/ MatchesKeyword(txt, kw_timeout)
    \/ MatchesKeyword(txt, kw_rate)
    \/ MatchesKeyword(txt, kw_transient)

Messages == Get(state, "messages", <<>>)
ToolResults == SelectSeq(Messages, LAMBDA m : m.type = "tool")
Attempts == Get(state, "attempts", 0)
MaxAttempts == Get(state, "max_attempts", 3)
HasError == ~Falsy(state, "error")
ErrorText == Get(state["error"], "msg", EmptyText)

IsFailure(m) == ~m.content.isdict
IsRetryableFailure(m) == IsFailure(m) /\ TransientClass(m.content.value)
IsFatalFailure(m) == IsFailure(m) /\ ~TransientClass(m.content.value)

\* Every call of the tool so far failed with a retryable reason.
EveryCallFailedRetryable ==
    \A i \in 1..Len(ToolResults) : IsRetryableFailure(ToolResults[i])

\* The first call of the tool failed with a fatal reason.
FirstCallFailedFatal ==
    Len(ToolResults) >= 1 /\ IsFatalFailure(ToolResults[1])

RetryRunning == rnode \in {"plan", "tools", "parse", "maybe_retry", "repair"}

\* C5 as claimed: with max_attempts = 3 and a retryable failure on every call,
\* the tool has been invoked exactly 3 times when repair runs, and no more
\* after it.
C5_ThreeInvocations ==
    (MaxAttempts = 3 /\ EveryCallFailedRetryable /\ rnode \in {"repair", "END"})
        => invoked = 3

\* C5 as amended: with max_attempts = 3 and a retryable failure on every call,
\* the tool is invoked 4 times (the first call and 3 retries, attempts = 3,
\* one backoff before each retry), then repair runs, and the tool is not
\* invoked after repair.
C5_ThreeRetriesThenRepair ==
    (MaxAttempts = 3 /\ EveryCallFailedRetryable) =>
        /\ invoked <= 4
        /\ rnode \in {"repair", "END"} => (invoked = 4 /\ Attempts = 3 /\ Len(slept) = 3)
        /\ (invoked = 4 /\ Len(ToolResults) = 4) => rnode \in {"parse", "repair", "END"}
        /\ rnode # "ToolNodeError"

C5_Witness ==
    /\ MaxAttempts = 3 /\ EveryCallFailedRetryable
    /\ rnode = "END" /\ invoked = 4 /\ Attempts = 3

\* C6 as claimed: after a fatal failure of the first call with
\* max_attempts = 3, repair runs at once: one invocation, no backoff, and
\* attempts = 1 when repair runs.
C6_AttemptsOneAtRepair ==
    (MaxAttempts = 3 /\ FirstCallFailedFatal /\ rnode = "repair")
        => (invoked = 1 /\ slept = <<>> /\ Attempts = 1)

\* C6 as amended: after a fatal failure of the first call with
\* max_attempts = 3 the run goes from parse to repair and END: the tool is
\* invoked once, no backoff is taken, maybe_retry is not entered, and attempts
\* is still unset (read as 0) when repair runs.
C6_FatalGoesToRepair ==
    (MaxAttempts = 3 /\ FirstCallFailedFatal) =>
        /\ invoked = 1
        /\ slept = <<>>
        /\ rnode \in {"parse", "repair", "END"}
        /\ "attempts" \notin DOMAIN state

C6_Witness ==
    /\ MaxAttempts = 3 /\ FirstCallFailedFatal
    /\ rnode = "repair" /\ invoked = 1 /\ Attempts = 0

\* C8: in every reachable state of the retry workflow with max_attempts >= 0,
\* attempts <= max_attempts + 1.
C8_AttemptsBounded ==
    MaxAttempts >= 0 => Attempts <= MaxAttempts + 1

\* the counter has reached the bound and the run gives up
C8_Witness ==
    /\ MaxAttempts >= 1 /\ Attempts = MaxAttempts
    /\ rnode = "repair"

\* C9: both classifiers agree on every recorded failure and call it retryable
\* exactly when its text is in the transient class; maybe_retry is entered
\* only for such a failure, and any other failure is followed by repair (then
\* END) with no further call of the tool, whatever attempts remain.
C9_Classification ==
    HasError =>
        /\ retryable_in_branch(state) = retryable_in_maybe_retry(state)
        /\ retryable_in_branch(state) = TransientClass(ErrorText)
        /\ rnode = "maybe_retry" => TransientClass(ErrorText)
        /\ ~TransientClass(ErrorText) =>
              /\ rnode \in {"repair", "END"}
              /\ Messages[Len(Messages)].type = "tool"
              /\ Messages[Len(Messages)].content.value = ErrorText

\* a near miss of a keyword goes to repair although attempts remain
C9_Witness ==
    /\ HasError /\ ~TransientClass(ErrorText)
    /\ rnode = "repair" /\ Attempts < MaxAttempts

\* C10 as claimed: a run never ends without a usable result in data.
C10_DataAtEveryEnd ==
    ~RetryRunning => "data" \in DOMAIN state

LastResult == ToolResults[Len(ToolResults)]

C10_Safe ==
    /\ rnode = "END" =>
          /\ "data" \in DOMAIN state
          /\ \/ (~IsFailure(LastResult) /\ state["data"] = LastResult.content.value)
             \/ (IsFailure(LastResult) /\ state["data"] = repair(state)["data"])
    /\ rnode = "GraphRecursionError" =>
          /\ rsteps = RecursionLimit
          /\ 3 * MaxAttempts + 4 > RecursionLimit
    /\ rnode # "ToolNodeError"

\* C10 as amended: every run terminates; a run that ends within the
\* recursion limit ends at END with data set to the tool's payload or to the
\* repaired result; the only other end is the recursion limit stopping a run
\* whose retries need more than RecursionLimit node transitions
\* (3 * max_attempts + 4 > 50); that run ends with GraphRecursionError.
C10_TerminatesUsableOrStopped ==
    [] C10_Safe /\ <>[] ~RetryRunning

C10_Witness ==
    /\ rnode = "END" /\ IsFailure(LastResult)
    /\ Attempts = 15 /\ MaxAttempts = 15
    /\ "data" \in DOMAIN state

\* txt is t with every letter in upper case.
IsUpperCaseOf(txt, t) ==
    /\ Len(txt) = Len(t)
    /\ \A i \in 1..Len(t) : SameLetter(txt[i], t[i]) /\ txt[i] \notin LowerSet

\* The step of the repair node, from the state it reads to the state it leaves.
RepairStep == rnode = "repair" /\ rnode' # "repair"

\* C11: the repair node never fails: its step ends the run at END with data
\* set and every other key untouched.  When last_good exists data is last_good
\* with stale = true added; otherwise data is the placeholder: the ticker in
\* upper case, price None, note "unavailable".
C11_RepairResult ==
    [][ RepairStep =>
          /\ rnode' \in {"END", "GraphRecursionError"}
          /\ rnode' = "END" =>
                /\ "data" \in DOMAIN state'
                /\ \A k \in DOMAIN state : k # "data" =>
                       (k \in DOMAIN state' /\ state'[k] = state[k])
                /\ IF "last_good" \in DOMAIN state
                   THEN /\ DOMAIN state'["data"] = DOMAIN state["last_good"] \cup {"stale"}
                        /\ state'["data"]["stale"] = TRUE
                        /\ \A k \in DOMAIN state["last_good"] :
                               state'["data"][k] = state["last_good"][k]
                   ELSE /\ DOMAIN state'["data"] = {"ticker", "price", "note"}
                        /\ IsUpperCaseOf(state'["data"]["ticker"], state["ticker"])
                        /\ state'["data"]["price"] = "None"
                        /\ state'["data"]["note"] = Unavailable
      ]_vars

\* repair has returned the stale copy of the last_good given in the input
C11_Witness ==
    /\ rnode = "END" /\ IsFailure(LastResult)
    /\ "last_good" \in DOMAIN state
    /\ "stale" \in DOMAIN state["data"]
    /\ state["data"]["price"] = state["last_good"]["price"]

RECURSIVE SumOf(_)
SumOf(seq) == IF seq = <<>> THEN 0 ELSE Head(seq) + SumOf(Tail(seq))

\* The delays waited so far: one per retry, the n-th of 500 * 2^(n-1) ms.
DelaysSoFar ==
    /\ Len(slept) = Attempts
    /\ \A n \in 1..Len(slept) : slept[n] = 500 * 2 ^ (n - 1)
    /\ (MaxAttempts = 3 /\ EveryCallFailedRetryable /\ rnode \in {"repair", "END"})
          => (slept = <<500, 1000, 2000>> /\ SumOf(slept) = 3500)

\* C17: delays are waited only by maybe_retry when it re-issues the call, one
\* per increment of attempts, and the delay waited when the counter becomes n
\* is 0.5 * 2^(n-1) seconds (500 * 2^(n-1) ms); with max_attempts = 3 and a
\* retryable failure on every call the delays at give-up are 0.5, 1.0, 2.0 in
\* that order, 3.5 in total; parse and repair, the give-up path, wait nothing.
C17_BackoffDelays ==
    /\ [] DelaysSoFar
    /\ [][ slept' # slept =>
              /\ rnode = "maybe_retry" /\ rnode' = "tools"
              /\ Get(state', "attempts", 0) = Attempts + 1
              /\ Len(Get(state', "messages", <<>>)) = Len(Messages) + 1
              /\ slept' = Append(slept, 500 * 2 ^ (Get(state', "attempts", 0) - 1))
          ]_vars
    /\ [][ (rnode \in {"parse", "repair"}) => slept' = slept ]_vars

\* three retries were made and the run gave up
C17_Witness ==
    /\ MaxAttempts = 3 /\ EveryCallFailedRetryable
    /\ rnode = "END"
    /\ slept = <<500, 1000, 2000>>

\* C12: after the workflow gave up and repair produced its result, applying
\* maybe_retry to that state changes neither attempts nor messages.
C12_RetryAfterRepairIsNoOp ==
    [][ (rnode = "END" /\ IsFailure(LastResult) /\ rnode' = "maybe_retry_again") =>
           /\ Get(state', "attempts", 0) = Attempts
           /\ Get(state', "messages", <<>>) = Messages
      ]_vars

---------------------------------------------------------------------------
(* Part III: the approval graph                                            *)

\* Bound of the model: LLM invocations per thread.
MaxPlans == 2

NoId == <<>>

HumanMessage(content) ==
    [type |-> "human", id |-> NoId, content |-> content,
     tool_calls |-> <<>>, name |-> "", tool_call_id |-> NoId]

AIMessage(content, tool_calls, id) ==
    [type |-> "ai", id |-> id, content |-> content,
     tool_calls |-> tool_calls, name |-> "", tool_call_id |-> NoId]

ToolMessage(content, name, tool_call_id) ==
    [type |-> "tool", id |-> NoId, content |-> content,
     tool_calls |-> <<>>, name |-> name, tool_call_id |-> tool_call_id]

\* A messages channel without reducer: a node's update overwrites the list
add_messages_overwrites(left, right) == right

\* The add_messages reducer of PrismaAgentState.messages: a message whose id
\* is already in the list replaces that message in place, any other message
\* is appended; a message without id is given a fresh one.
RECURSIVE add_messages(_, _)
add_messages(left, right) ==
    IF right = <<>>
    THEN left
    ELSE LET m0  == Head(right)
             m   == IF m0.id = NoId THEN [m0 EXCEPT !.id = <<"uuid", Len(left) + 1>>] ELSE m0
             idx == { i \in 1..Len(left) : left[i].id = m.id }
             merged == IF idx # {}
                       THEN [left EXCEPT ![CHOOSE i \in idx : TRUE] = m]
                       ELSE Append(left, m)
         IN add_messages(merged, Tail(right))

\* The tools of the MCP server (prisma_server.py).
ToolNames == {"executeQuery", "assignFilingTool"}

\* Values of protected_tools: the default, none, both tools.
ProtectedChoices == { <<"executeQuery">>, <<>>, <<"executeQuery", "assignFilingTool">> }

\* The arguments the LLM proposes for a tool.
LLMArgs(name) ==
    IF name = "executeQuery"
    THEN [sql_query |-> "DELETE FROM filings", description |-> "purge filings"]
    ELSE [companyTaxYearId |-> "2024"]

\* The tool calls one LLM response may carry: none, one, or two (the
\* provider is asked for parallel_tool_calls=False, the router and the chat
\* client still provide for several).
CallLists ==
    { <<>> } \cup { <<n>> : n \in ToolNames }
    \cup { <<"executeQuery", "assignFilingTool">>, <<"assignFilingTool", "executeQuery">> }

\* llm.invoke: the responses the k-th invocation may return.
llm_invoke(k) ==
    { AIMessage(IF names = <<>> THEN "answer" ELSE "",
                [j \in 1..Len(names) |->
                    [id |-> <<"call", k, j>>, name |-> names[j], args |-> LLMArgs(names[j])]],
                <<"run", k>>)
        : names \in CallLists }

\* name in state.protected_tools
InList(name, lst) == \E i \in 1..Len(lst) : lst[i] = name

\* assistant_router with only the last tool call tested against protected_tools
assistant_router_last_call_only(msgs, yolo, protected) ==
    LET last_message == msgs[Len(msgs)] IN
    IF last_message.type = "ai" /\ last_message.tool_calls # <<>>
    THEN IF ~yolo /\ InList(last_message.tool_calls[Len(last_message.tool_calls)].name, protected)
         THEN "human_query_review_node"
         ELSE "tools"
    ELSE "END"

\* assistant_router without the yolo_mode test
assistant_router_ignores_yolo(msgs, yolo, protected) ==
    LET last_message == msgs[Len(msgs)] IN
    IF last_message.type = "ai" /\ last_message.tool_calls # <<>>
    THEN IF \E i \in 1..Len(last_message.tool_calls) :
                InList(last_message.tool_calls[i].name, protected)
         THEN "human_query_review_node"
         ELSE "tools"
    ELSE "END"

\* assistant_router
assistant_router(msgs, yolo, protected) ==
    LET last_message == msgs[Len(msgs)] IN
    IF last_message.type = "ai" /\ last_message.tool_calls # <<>>
    THEN IF ~yolo /\ \E i \in 1..Len(last_message.tool_calls) :
                        InList(last_message.tool_calls[i].name, protected)
         THEN "human_query_review_node"
         ELSE "tools"
    ELSE "END"

\* human_query_review_node, lines 135-139: the node has a pending call to review
review_has_tool_calls(msgs) ==
    msgs # <<>> /\ msgs[Len(msgs)].type = "ai" /\ msgs[Len(msgs)].tool_calls # <<>>

\* human_query_review_node, line 141
review_tool_call(msgs) ==
    LET last_message == msgs[Len(msgs)] IN
    last_message.tool_calls[Len(last_message.tool_calls)]

\* human_query_review_node, lines 144-153: the value given to interrupt()
interrupt_payload(msgs) ==
    LET tool_call == review_tool_call(msgs) IN
    [message |-> "Query execution requires your approval:",
     tool_call |-> tool_call,
     query_info |-> [type |-> "SQL Query",
                     description |-> Get(tool_call.args, "description", "Database query"),
                     query |-> Get(tool_call.args, "sql_query", "No query provided")],
     original_request |-> msgs[1].content]

\* json.loads on the texts a caller sends as data: the one that is a JSON
\* object parses to its value, any other text raises JSONDecodeError.
ValidJson   == "{\"sql_query\": \"SELECT 1\", \"description\": \"edited\"}"
InvalidJson == "use SELECT 1 instead"
JsonValue   == (ValidJson :> [sql_query |-> "SELECT 1", description |-> "edited"])
json_loads(text) ==
    IF text \in DOMAIN JsonValue
    THEN [ok |-> TRUE, value |-> JsonValue[text]]
    ELSE [ok |-> FALSE, value |-> <<>>]

RejectionText == "The query execution was rejected by the user. Please ask for clarification or suggest alternative approaches."

Goto(node, update) == [raised |-> "none", goto |-> node, update |-> update]
Raise(exc) == [raised |-> exc, goto |-> "", update |-> <<>>]

\* human_query_review_node whose reject case falls through to the tools node
human_query_review_reject_executes(msgs, human_review) ==
    LET last_message  == msgs[Len(msgs)]
        tool_call     == review_tool_call(msgs)
        review_action == human_review.action
        review_data   == human_review.data
    IN
    CASE review_action \in {"continue", "c", "C"} ->
            Goto("tools", <<>>)
      [] review_action = "update" ->
            IF review_data.is_none
            THEN Raise("ValueError")
            ELSE IF ~json_loads(review_data.text).ok
            THEN Raise("JSONDecodeError")
            ELSE Goto("tools",
                      <<AIMessage(last_message.content,
                                  <<[id |-> tool_call.id, name |-> tool_call.name,
                                     args |-> json_loads(review_data.text).value]>>,
                                  last_message.id)>>)
      [] review_action = "feedback" ->
            IF review_data.is_none
            THEN Raise("ValueError")
            ELSE Goto("assistant_node",
                      <<ToolMessage(review_data.text, tool_call.name, tool_call.id)>>)
      [] OTHER ->
            Goto("tools", <<>>)

\* human_query_review_node whose update builds the edited message without the
\* id of the pending one: the reducer appends it
human_query_review_update_appends(msgs, human_review) ==
    LET last_message  == msgs[Len(msgs)]
        tool_call     == review_tool_call(msgs)
        review_action == human_review.action
        review_data   == human_review.data
    IN
    CASE review_action \in {"continue", "c", "C"} ->
            Goto("tools", <<>>)
      [] review_action = "update" ->
            IF review_data.is_none
            THEN Raise("ValueError")
            ELSE IF ~json_loads(review_data.text).ok
            THEN Raise("JSONDecodeError")
            ELSE Goto("tools",
                      <<AIMessage(last_message.content,
                                  <<[id |-> tool_call.id, name |-> tool_call.name,
                                     args |-> json_loads(review_data.text).value]>>,
                                  NoId)>>)
      [] review_action = "feedback" ->
            IF review_data.is_none
            THEN Raise("ValueError")
            ELSE Goto("assistant_node",
                      <<ToolMessage(review_data.text, tool_call.name, tool_call.id)>>)
      [] review_action = "reject" ->
            Goto("assistant_node",
                 <<ToolMessage(RejectionText, tool_call.name, tool_call.id)>>)
      [] OTHER ->
            Goto("tools", <<>>)

\* human_query_review_node with an update whose data is missing or unparsable
\* ignored: the pending call goes to the tools node as it is
human_query_review_lenient_update(msgs, human_review) ==
    LET last_message  == msgs[Len(msgs)]
        tool_call     == review_tool_call(msgs)
        review_action == human_review.action
        review_data   == human_review.data
    IN
    CASE review_action \in {"continue", "c", "C"} ->
            Goto("tools", <<>>)
      [] review_action = "update" ->
            IF review_data.is_none \/ ~json_loads(review_data.text).ok
            THEN Goto("tools", <<>>)
            ELSE Goto("tools",
                      <<AIMessage(last_message.content,
                                  <<[id |-> tool_call.id, name |-> tool_call.name,
                                     args |-> json_loads(review_data.text).value]>>,
                                  last_message.id)>>)
      [] review_action = "feedback" ->
            IF review_data.is_none
            THEN Raise("ValueError")
            ELSE Goto("assistant_node",
                      <<ToolMessage(review_data.text, tool_call.name, tool_call.id)>>)
      [] review_action = "reject" ->
            Goto("assistant_node",
                 <<ToolMessage(RejectionText, tool_call.name, tool_call.id)>>)
      [] OTHER ->
            Goto("tools", <<>>)

\* human_query_review_node, lines 155-203: what the node does with the value
\* interrupt() returns: a Command(goto, update), or an exception.
human_query_review(msgs, human_review) ==
    LET last_message  == msgs[Len(msgs)]
        tool_call     == review_tool_call(msgs)
        review_action == human_review.action
        review_data   == human_review.data
    IN
    CASE review_action \in {"continue", "c", "C"} ->
            Goto("tools", <<>>)
      [] review_action = "update" ->
            IF review_data.is_none
            THEN Raise("ValueError")
            ELSE IF ~json_loads(review_data.text).ok
            THEN Raise("JSONDecodeError")
            ELSE Goto("tools",
                      <<AIMessage(last_message.content,
                                  <<[id |-> tool_call.id, name |-> tool_call.name,
                                     args |-> json_loads(review_data.text).value]>>,
                                  last_message.id)>>)
      [] review_action = "feedback" ->
            IF review_data.is_none
            THEN Raise("ValueError")
            ELSE Goto("assistant_node",
                      <<ToolMessage(review_data.text, tool_call.name, tool_call.id)>>)
      [] review_action = "reject" ->
            Goto("assistant_node",
                 <<ToolMessage(RejectionText, tool_call.name, tool_call.id)>>)
      [] OTHER ->
            Goto("tools", <<>>)

\* The decisions a caller may resume with.
Decisions ==
    { [action |-> a, data |-> NoneData] :
        a \in {"continue", "c", "C", "update", "feedback", "reject", "exit", "yes"} }
    \cup { [action |-> "update", data |-> Text(t)] : t \in {ValidJson, InvalidJson} }
    \cup { [action |-> "feedback", data |-> Text("only this year")] }

\* graph.astream(input) on a new thread: the input is written to the state,
\* edge START -> assistant_node.
AgentInit ==
    /\ messages = add_messages(<<>>, <<HumanMessage("Briefly introduce yourself and offer to help me.")>>)
    /\ yolo_mode \in BOOLEAN
    /\ protected_tools \in ProtectedChoices
    /\ anode = "assistant_node"
    /\ via = "start"
    /\ interrupts = <<>>
    /\ last_decision = NoDecision
    /\ fault = "none"
    /\ inflight = NoDecision
    /\ executed = <<>>
    /\ interrupted = {}
    /\ plans = 0
    /\ asteps = 0
    /\ review_entry = "none"
    /\ client = "none"
    /\ refused = {}
    /\ RetryNotStarted
    /\ QueryNotStarted

\* RunnableConfig(recursion_limit=25): the node transitions one run (one
\* call of graph.astream) may perform.
recursion_limit == 25

\* The run has not used up its node transitions.
WithinLimit == asteps < recursion_limit

\* assistant_node returning a new PrismaAgentState(messages=...): the other
\* fields are written back with their defaults
AssistantStep_returns_new_state(responses) ==
    /\ anode = "assistant_node"
    /\ WithinLimit
    /\ \E response \in responses :
          messages' = add_messages(messages, Append(messages, response))
    /\ protected_tools' = <<"executeQuery">>
    /\ yolo_mode' = TRUE
    /\ anode' = assistant_router(messages', yolo_mode', protected_tools')
    /\ via' = "router"
    /\ plans' = plans + 1
    /\ asteps' = asteps + 1
    /\ last_decision' = NoDecision
    /\ fault' = "none"
    /\ review_entry' = "none"
    /\ UNCHANGED <<interrupts, inflight, executed, interrupted, client, refused>>
    /\ UNCHANGED <<rvars, qvars>>

\* node assistant_node and its conditional edge assistant_router, for an LLM
\* that answers with one of responses
AssistantStep(responses) ==
    /\ anode = "assistant_node"
    /\ WithinLimit
    /\ \E response \in responses :
          messages' = add_messages(messages, Append(messages, response))
    /\ anode' = assistant_router(messages', yolo_mode, protected_tools)
    /\ via' = "router"
    /\ plans' = plans + 1
    /\ asteps' = asteps + 1
    /\ last_decision' = NoDecision
    /\ fault' = "none"
    /\ review_entry' = "none"
    /\ UNCHANGED <<protected_tools, yolo_mode, interrupts, inflight, executed, interrupted, client, refused>>
    /\ UNCHANGED <<rvars, qvars>>

\* node assistant_node and its conditional edge assistant_router, while the
\* thread is within the model's bound on LLM invocations
AssistantNode ==
    /\ plans < MaxPlans
    /\ AssistantStep(llm_invoke(plans + 1))

\* human_query_review_node run although the thread is suspended at it: a
\* further interrupt is put next to the pending one
HumanQueryReviewNode_while_suspended ==
    /\ anode = "human_query_review_node"
    /\ fault = "none"
    /\ WithinLimit
    /\ IF review_has_tool_calls(messages)
       THEN /\ interrupts' = Append(interrupts, interrupt_payload(messages))
            /\ interrupted' = interrupted \cup {messages[Len(messages)].id}
            /\ UNCHANGED fault
       ELSE /\ fault' = "ValueError"
            /\ UNCHANGED <<interrupts, interrupted>>
    /\ review_entry' = "first"
    /\ asteps' = asteps + 1
    /\ UNCHANGED <<messages, protected_tools, yolo_mode, anode, via, last_decision,
                   inflight, executed, plans, client, refused>>
    /\ UNCHANGED <<rvars, qvars>>

\* node human_query_review_node, entered from the router: lines 135-153.
\* interrupt() suspends the thread with its payload pending.
HumanQueryReviewNode ==
    /\ anode = "human_query_review_node"
    /\ interrupts = <<>>
    /\ fault = "none"
    /\ WithinLimit
    /\ IF review_has_tool_calls(messages)
       THEN /\ interrupts' = <<interrupt_payload(messages)>>
            /\ interrupted' = interrupted \cup {messages[Len(messages)].id}
            /\ UNCHANGED fault
       ELSE /\ fault' = "ValueError"
            /\ UNCHANGED <<interrupts, interrupted>>
    /\ review_entry' = "first"
    /\ asteps' = asteps + 1
    /\ UNCHANGED <<messages, protected_tools, yolo_mode, anode, via, last_decision,
                   inflight, executed, plans, client, refused>>
    /\ UNCHANGED <<rvars, qvars>>

\* A resume that replays the run from its start: the tool calls executed
\* before the suspension are executed again
Deliver_replays_steps(decision, kind) ==
    LET r == IF review_has_tool_calls(messages)
             THEN human_query_review(messages, decision)
             ELSE Raise("ValueError") IN
    /\ last_decision' = decision
    /\ via' = kind
    /\ review_entry' = "again"
    /\ asteps' = 1
    /\ executed' = executed \o executed
    /\ IF r.raised = "none"
       THEN /\ messages' = add_messages(messages, r.update)
            /\ anode' = r.goto
            /\ interrupts' = <<>>
            /\ fault' = "none"
       ELSE /\ fault' = r.raised
            /\ UNCHANGED <<messages, anode, interrupts>>
    /\ UNCHANGED <<protected_tools, yolo_mode, interrupted, plans>>

\* The review node run with the value of Command(resume=decision): the
\* executor runs the node again from its first line (135), interrupt() at
\* line 144 now returns the decision instead of suspending.  The Command the
\* node returns is applied, or its exception ends the run and leaves the
\* thread suspended at the node.
Deliver(decision, kind) ==
    LET r == IF review_has_tool_calls(messages)
             THEN human_query_review(messages, decision)
             ELSE Raise("ValueError") IN
    /\ last_decision' = decision
    /\ via' = kind
    /\ review_entry' = "again"
    /\ asteps' = 1
    /\ IF r.raised = "none"
       THEN /\ messages' = add_messages(messages, r.update)
            /\ anode' = r.goto
            /\ interrupts' = <<>>
            /\ fault' = "none"
       ELSE /\ fault' = r.raised
            /\ UNCHANGED <<messages, anode, interrupts>>
    /\ UNCHANGED <<protected_tools, yolo_mode, executed, interrupted, plans>>

\* graph.astream(Command(resume=decision)) on the suspended thread; the
\* request may be duplicated on its way, the copy arriving later.
Resume ==
    /\ interrupts # <<>>
    /\ \E decision \in Decisions, duplicated \in BOOLEAN :
          /\ Deliver(decision, "fresh")
          /\ inflight' = IF duplicated THEN decision ELSE inflight
    /\ UNCHANGED <<client, refused>>
    /\ UNCHANGED <<rvars, qvars>>

\* The copy of a resume request arrives, once the run the original started has
\* come to rest: with no interrupt pending the thread has no task to resume
\* and nothing runs; with an interrupt pending the copy is its resume value.
ResumeAgain ==
    /\ inflight # NoDecision
    /\ anode = "END" \/ interrupts # <<>>
    /\ inflight' = NoDecision
    /\ IF interrupts = <<>>
       THEN UNCHANGED <<messages, protected_tools, yolo_mode, anode, via, interrupts,
                        last_decision, fault, executed, interrupted, plans, asteps,
                        review_entry>>
       ELSE Deliver(inflight, "duplicate")
    /\ UNCHANGED <<client, refused>>
    /\ UNCHANGED <<rvars, qvars>>

\* The side effect and the answer of one tool call executed by ToolNode.
tool_run(msg, how, decision) ==
    [j \in 1..Len(msg.tool_calls) |->
        [call |-> msg.tool_calls[j], msg |-> msg.id, via |-> how, decision |-> decision.action]]

tool_answers(msg) ==
    [j \in 1..Len(msg.tool_calls) |->
        ToolMessage("result", msg.tool_calls[j].name, msg.tool_calls[j].id)]

\* node "tools": ToolNode(tools) executes every tool call of the last AI
\* message and appends their tool messages; edge tools -> assistant_node.
AgentTools ==
    /\ anode = "tools"
    /\ fault = "none"
    /\ WithinLimit
    /\ IF review_has_tool_calls(messages)
       THEN /\ executed' = executed \o tool_run(messages[Len(messages)], via, last_decision)
            /\ messages' = add_messages(messages, tool_answers(messages[Len(messages)]))
            /\ anode' = "assistant_node"
            /\ via' = "edge"
            /\ last_decision' = NoDecision
            /\ UNCHANGED fault
       ELSE /\ fault' = "ValueError"
            /\ UNCHANGED <<executed, messages, anode, via, last_decision>>
    /\ review_entry' = "none"
    /\ asteps' = asteps + 1
    /\ UNCHANGED <<protected_tools, yolo_mode, interrupts, inflight, interrupted, plans, client, refused>>
    /\ UNCHANGED <<rvars, qvars>>

\* The thread is at END and the caller starts its next run with a new human
\* message.
UserTurn ==
    /\ anode = "END"
    /\ plans < MaxPlans
    /\ messages' = add_messages(messages, <<HumanMessage("next request")>>)
    /\ anode' = "assistant_node"
    /\ via' = "start"
    /\ last_decision' = NoDecision
    /\ review_entry' = "none"
    /\ asteps' = 0
    /\ UNCHANGED <<protected_tools, yolo_mode, interrupts, fault, inflight, executed,
                   interrupted, plans, client, refused>>
    /\ UNCHANGED <<rvars, qvars>>

\* A caller starts a run with a new input on the thread while it is
\* suspended: the executor drops the pending task with its interrupt, writes
\* the input and runs from START.
StartWhileSuspended ==
    /\ interrupts # <<>>
    /\ plans < MaxPlans
    /\ messages' = add_messages(messages, <<HumanMessage("next request")>>)
    /\ interrupts' = <<>>
    /\ anode' = "assistant_node"
    /\ via' = "start"
    /\ last_decision' = NoDecision
    /\ fault' = "none"
    /\ review_entry' = "none"
    /\ asteps' = 0
    /\ UNCHANGED <<protected_tools, yolo_mode, inflight, executed, interrupted, plans, client, refused>>
    /\ UNCHANGED <<rvars, qvars>>

AgentNext ==
    \/ AssistantNode
    \/ HumanQueryReviewNode
    \/ Resume
    \/ ResumeAgain
    \/ AgentTools
    \/ UserTurn
    \/ StartWhileSuspended

SpecAgent == AgentInit /\ [][AgentNext]_vars

---------------------------------------------------------------------------
(* Part IV: the chat client of client/demo-app-chat.py                     *)

\* Texts typed at the client's prompts, character by character.
CONTINUE == <<"c", "o", "n", "t", "i", "n", "u", "e">>
UPDATE == <<"u", "p", "d", "a", "t", "e">>
FEEDBACK == <<"f", "e", "e", "d", "b", "a", "c", "k">>
REJECT == <<"r", "e", "j", "e", "c", "t">>
EXIT == <<"e", "x", "i", "t">>
TYPED_CONTINUE_CAPS == <<"C", "o", "n", "t", "i", "n", "u", "e", " ">>
TYPED_EXIT_BLANK == <<" ", "E", "X", "I", "T">>
TYPED_C == <<"c">>
TYPED_YES == <<"y", "e", "s">>
QUIT == <<"q", "u", "i", "t">>
TYPED_QUIT_CAPS == <<"Q", "u", "i", "t">>
TYPED_Q == <<"q">>
TYPED_REQUEST == <<"l", "i", "s", "t", " ", "t", "h", "e", " ", "f", "i", "l", "i", "n", "g", "s">>

\* str.strip(): the text without its leading and trailing blanks
strip(t) ==
    LET solid == { i \in 1..Len(t) : t[i] # " " } IN
    IF solid = {}
    THEN <<>>
    ELSE LET first == CHOOSE i \in solid : \A j \in solid : i <= j
             last  == CHOOSE i \in solid : \A j \in solid : j <= i
         IN [k \in 1..(last - first + 1) |-> t[first + k - 1]]

\* [action.value for action in ReviewAction]: the alias c is not a member
valid_actions ==
    { CONTINUE, UPDATE, FEEDBACK, REJECT, EXIT }

\* The action tag a text spells.
ActionTag ==
    ( CONTINUE :> "continue" @@ UPDATE :> "update" @@ FEEDBACK :> "feedback"
      @@ REJECT :> "reject" @@ EXIT :> "exit" )

\* What the user may type at the approval prompt.
TypedActions ==
    { CONTINUE, UPDATE, FEEDBACK, REJECT, EXIT,
      TYPED_CONTINUE_CAPS, TYPED_EXIT_BLANK, TYPED_C, TYPED_YES, <<>> }

\* What the user may type as data of an update or of a feedback.
TypedData(action) ==
    CASE action = "update"   -> { Text(ValidJson), Text(InvalidJson), Text("") }
      [] action = "feedback" -> { Text("only this year"), Text("") }
      [] OTHER               -> { NoneData }

\* What the user may type at the "You:" prompt.
TypedLines ==
    { EXIT, TYPED_QUIT_CAPS, TYPED_Q, <<>>, <<" ", " ">>, TYPED_REQUEST }

\* YOLLO_MODE as the environment gives it and the bool the state model makes
\* of it ("False" when the variable is not set).
YolloEnv == ( "False" :> FALSE @@ "True" :> TRUE @@ "0" :> FALSE @@ "1" :> TRUE )

\* main, lines 183-199: the first run, with the initial input
ClientInit ==
    /\ messages = add_messages(<<>>, <<HumanMessage("Briefly introduce yourself and offer to help me.")>>)
    /\ \E env \in DOMAIN YolloEnv : yolo_mode = YolloEnv[env]
    /\ protected_tools = <<"executeQuery">>
    /\ anode = "assistant_node"
    /\ via = "start"
    /\ interrupts = <<>>
    /\ last_decision = NoDecision
    /\ fault = "none"
    /\ inflight = NoDecision
    /\ executed = <<>>
    /\ interrupted = {}
    /\ plans = 0
    /\ asteps = 0
    /\ review_entry = "none"
    /\ client = "running"
    /\ refused = {}
    /\ RetryNotStarted
    /\ QueryNotStarted

\* The approval step of a client that resumes the graph with exit as with
\* any other action
ClientApproval_delivers_exit ==
    /\ client = "running"
    /\ interrupts # <<>>
    /\ \E typed \in TypedActions :
          LET action == lower(strip(typed)) IN
          IF action \notin valid_actions
          THEN /\ refused' = refused \cup {typed}
               /\ UNCHANGED <<messages, protected_tools, yolo_mode, anode, via, interrupts,
                              last_decision, fault, executed, interrupted, plans,
                              asteps, review_entry, client>>
          ELSE /\ UNCHANGED refused
               /\ \E data \in TypedData(ActionTag[action]) :
                     /\ Deliver([action |-> ActionTag[action], data |-> data], "fresh")
                     /\ client' = IF fault' # "none" THEN "raised" ELSE "running"
    /\ UNCHANGED inflight
    /\ UNCHANGED <<rvars, qvars>>

\* main, lines 205-225, with handle_human_approval (90-135): the prompt is
\* repeated until the text typed, stripped and lower-cased, is a valid action;
\* exit makes main return without resuming; any other action is sent with
\* its data as Command(resume=...); an exception of the run passes through
\* the except block of lines 249-252, which prints it and raises it again.
ClientApproval ==
    /\ client = "running"
    /\ interrupts # <<>>
    /\ \E typed \in TypedActions :
          LET action == lower(strip(typed)) IN
          IF action \notin valid_actions
          THEN /\ refused' = refused \cup {typed}
               /\ UNCHANGED <<messages, protected_tools, yolo_mode, anode, via, interrupts,
                              last_decision, fault, executed, interrupted, plans,
                              asteps, review_entry, client>>
          ELSE /\ UNCHANGED refused
               /\ IF action = EXIT
                  THEN /\ client' = "returned"
                       /\ UNCHANGED <<messages, protected_tools, yolo_mode, anode, via,
                                      interrupts, last_decision, fault, executed,
                                      interrupted, plans, asteps, review_entry>>
                  ELSE \E data \in TypedData(ActionTag[action]) :
                          /\ Deliver([action |-> ActionTag[action], data |-> data], "fresh")
                          /\ client' = IF fault' # "none" THEN "raised" ELSE "running"
    /\ UNCHANGED inflight
    /\ UNCHANGED <<rvars, qvars>>

\* main, lines 227-245: the thread is at END and the user is asked for the
\* next request.  exit, quit and q end the loop; an empty line takes the loop
\* back to its top, which streams the previous graph_input again; any other
\* text is the input of the next run, a PrismaAgentState with the default
\* protected_tools.
ClientUserInput ==
    /\ client = "running"
    /\ anode = "END"
    /\ interrupts = <<>>
    /\ \E typed \in TypedLines :
          LET user_input == strip(typed) IN
          IF lower(user_input) \in {EXIT, QUIT, TYPED_Q}
          THEN /\ client' = "returned"
               /\ UNCHANGED <<messages, protected_tools, yolo_mode, anode, via, interrupts,
                              last_decision, fault, executed, interrupted, plans,
                              asteps, review_entry, refused>>
          ELSE /\ plans < MaxPlans
               /\ IF user_input = <<>>
                  THEN \* the message object of the previous input: it replaces
                       \* itself when it kept the id the reducer gave it, it is
                       \* appended as a new message when it did not
                       LET humans   == { i \in 1..Len(messages) : messages[i].type = "human" }
                           previous == messages[CHOOSE i \in humans : \A j \in humans : j <= i]
                       IN \E kept_id \in BOOLEAN :
                             /\ messages' = add_messages(messages,
                                   <<IF kept_id THEN previous ELSE HumanMessage(previous.content)>>)
                             /\ UNCHANGED protected_tools
                  ELSE /\ messages' = add_messages(messages, <<HumanMessage(user_input)>>)
                       /\ protected_tools' = <<"executeQuery">>
               /\ anode' = "assistant_node"
               /\ via' = "start"
               /\ last_decision' = NoDecision
               /\ review_entry' = "none"
               /\ asteps' = 0
               /\ UNCHANGED <<yolo_mode, interrupts, fault, executed, interrupted, plans, client, refused>>
    /\ UNCHANGED inflight
    /\ UNCHANGED <<rvars, qvars>>

ClientNext ==
    \/ AssistantNode
    \/ HumanQueryReviewNode
    \/ AgentTools
    \/ ClientApproval
    \/ ClientUserInput

SpecClient == ClientInit /\ [][ClientNext]_vars

\* llm.bind_tools(tools, parallel_tool_calls=False): a response carries at
\* most one tool call.
llm_single_call(k) == { m \in llm_invoke(k) : Len(m.tool_calls) <= 1 }

\* assistant_node in a run of the client, as often as the run lasts
RunAssistantNode ==
    /\ client = "running"
    /\ AssistantStep(llm_single_call(plans + 1))

\* graph.astream after recursion_limit node transitions with a node still
\* to run: the executor raises GraphRecursionError; the exception leaves
\* stream_graph_response, main's except block (lines 249-252) prints it and
\* raises it again, and asyncio.run(main()) ends the process with it.
ClientRecursionStop ==
    /\ client = "running"
    /\ anode \in {"assistant_node", "tools", "human_query_review_node"}
    /\ interrupts = <<>>
    /\ fault = "none"
    /\ ~WithinLimit
    /\ fault' = "GraphRecursionError"
    /\ client' = "raised"
    /\ UNCHANGED <<messages, protected_tools, yolo_mode, anode, via, interrupts,
                   last_decision, inflight, executed, interrupted, plans, asteps,
                   review_entry, refused>>
    /\ UNCHANGED <<rvars, qvars>>

\* One run of the client (one call of graph.astream), as long as the LLM
\* makes it: until an answer, an interrupt, or the recursion limit.
ClientRunNext ==
    \/ RunAssistantNode
    \/ HumanQueryReviewNode
    \/ AgentTools
    \/ ClientRecursionStop

SpecClientRun == ClientInit /\ [][ClientRunNext]_vars

---------------------------------------------------------------------------
(* Part V: the executeQuery tool of mcp-sever/prisma_server.py             *)

\* Queries the tool may be called with, character by character.
SQL_SELECT == <<"s", "e", "l", "e", "c", "t", " ", "1">>
SQL_SELECT_CAPS == <<" ", " ", "S", "E", "L", "E", "C", "T", " ", "*", " ", "F", "R", "O", "M", " ", "f", "i", "l", "i", "n", "g", "s">>
SQL_WITH == <<"W", "i", "t", "h", " ", "t", " ", "a", "s", " ", "(", "s", "e", "l", "e", "c", "t", " ", "1", ")", " ", "s", "e", "l", "e", "c", "t", " ", "*", " ", "f", "r", "o", "m", " ", "t">>
SQL_DELETE == <<"D", "E", "L", "E", "T", "E", " ", "F", "R", "O", "M", " ", "f", "i", "l", "i", "n", "g", "s">>
SQL_SELECTED == <<"s", "e", "l", "e", "c", "t", "e", "d">>
SQL_UPDATE == <<"u", "p", "d", "a", "t", "e", " ", "f", "i", "l", "i", "n", "g", "s", " ", "s", "e", "t", " ", "x", " ", "=", " ", "1">>
SQL_EMPTY == <<>>

kw_select == <<"s", "e", "l", "e", "c", "t">>
kw_with   == <<"w", "i", "t", "h">>

\* str.startswith
startswith(t, prefix) ==
    /\ Len(t) >= Len(prefix)
    /\ \A i \in 1..Len(prefix) : t[i] = prefix[i]

\* line 51: sql_query.strip().lower().startswith(('select', 'with'))
is_select(sql_query) ==
    LET sql_lower == lower(strip(sql_query)) IN
    startswith(sql_lower, kw_select) \/ startswith(sql_lower, kw_with)

QueryInputs ==
    { [sql_query |-> q, description |-> d] :
        q \in {SQL_SELECT, SQL_SELECT_CAPS, SQL_WITH, SQL_DELETE, SQL_SELECTED, SQL_UPDATE, SQL_EMPTY},
        d \in {"list filings", ""} }

\* The strings execute_sql_query returns, by their parts.
Returned(outcome, args, detail) ==
    [kind |-> "returned", outcome |-> outcome,
     description |-> args.description, query |-> args.sql_query, detail |-> detail]

\* line 45: "Error: DATABASE_URL not configured"
NotConfigured == [kind |-> "returned", outcome |-> "not configured",
                  description |-> "", query |-> <<>>, detail |-> "DATABASE_URL not configured"]

\* an exception handler that lets the exception go on to the caller
except_Exception_propagates(args, e) ==
    [kind |-> "raised", outcome |-> e, description |-> "", query |-> <<>>, detail |-> e]

\* lines 76-80: except Exception as e: return "Query execution failed! ..."
except_Exception(args, e) ==
    Returned("failed", args, e)

\* A result computed inside the inner try, held while finally closes the
\* connection.
Pending(r) == [r EXCEPT !.kind = "pending"]

\* executeQuery(sql_query, description) is called
QueryInit ==
    /\ qargs \in QueryInputs
    /\ qpc = "import"
    /\ qconn = "none"
    /\ qdb = <<>>
    /\ qresult = NoResult
    /\ RetryNotStarted
    /\ AgentNotStarted

\* line 42: import asyncpg
ImportDriver ==
    /\ qpc = "import"
    /\ \E found \in BOOLEAN :
          IF found
          THEN qpc' = "url" /\ UNCHANGED qresult
          ELSE qpc' = "done" /\ qresult' = except_Exception(qargs, "ModuleNotFoundError")
    /\ UNCHANGED <<qargs, qconn, qdb>>
    /\ UNCHANGED <<rvars, avars>>

\* lines 44-46: DATABASE_URL
ReadDatabaseUrl ==
    /\ qpc = "url"
    /\ \E configured \in BOOLEAN :
          IF configured
          THEN qpc' = "connect" /\ UNCHANGED qresult
          ELSE qpc' = "done" /\ qresult' = NotConfigured
    /\ UNCHANGED <<qargs, qconn, qdb>>
    /\ UNCHANGED <<rvars, avars>>

\* line 48: asyncpg.connect
Connect ==
    /\ qpc = "connect"
    /\ \E connected \in BOOLEAN :
          IF connected
          THEN qpc' = "query" /\ qconn' = "open" /\ UNCHANGED qresult
          ELSE /\ qpc' = "done" /\ UNCHANGED qconn
               /\ qresult' = except_Exception(qargs, "ConnectionError")
    /\ UNCHANGED <<qargs, qdb>>
    /\ UNCHANGED <<rvars, avars>>

\* lines 49-72: fetch for a select, execute for any other statement; the
\* value to return, or the exception, is held until finally has run
RunQuery ==
    /\ qpc = "query"
    /\ LET how == IF is_select(qargs.sql_query) THEN "fetch" ELSE "execute" IN
       \E ok \in BOOLEAN :
          /\ qdb' = Append(qdb, [how |-> how, sql |-> qargs.sql_query, ok |-> ok])
          /\ qresult' = IF ok
                        THEN Pending(Returned("success", qargs, how))
                        ELSE [kind |-> "raising", outcome |-> "PostgresError",
                              description |-> "", query |-> <<>>, detail |-> how]
    /\ qpc' = "finally"
    /\ UNCHANGED <<qargs, qconn>>
    /\ UNCHANGED <<rvars, avars>>

\* lines 74-80: finally: await conn.close(), then the pending return or the
\* outer handler; an exception of close() takes the place of either
CloseConnection ==
    /\ qpc = "finally"
    /\ \E closed \in BOOLEAN :
          IF closed
          THEN /\ qconn' = "closed"
               /\ qresult' = IF qresult.kind = "pending"
                             THEN [qresult EXCEPT !.kind = "returned"]
                             ELSE except_Exception(qargs, qresult.outcome)
          ELSE /\ UNCHANGED qconn
               /\ qresult' = except_Exception(qargs, "InterfaceError")
    /\ qpc' = "done"
    /\ UNCHANGED <<qargs, qdb>>
    /\ UNCHANGED <<rvars, avars>>

QueryNext ==
    \/ ImportDriver
    \/ ReadDatabaseUrl
    \/ Connect
    \/ RunQuery
    \/ CloseConnection

SpecQuery == QueryInit /\ [][QueryNext]_vars

\* t begins with the word kw, in whatever case.
BeginsWith(t, kw) ==
    /\ Len(t) >= Len(kw)
    /\ \A i \in 1..Len(kw) : SameLetter(t[i], kw[i])

\* C20: a call of executeQuery never raises: at every point no exception has
\* left execute_sql_query, and when the call is over it has returned a string
\* that reports success, failure or the missing DATABASE_URL, with the
\* description and the query of the call; success is reported only when the
\* statement was given to the database once and ran, a select or with
\* statement by fetch and any other by execute.
C20_NeverRaises ==
    /\ qresult.kind # "raised"
    /\ qpc = "done" =>
          /\ qresult.kind = "returned"
          /\ qresult.outcome \in {"success", "failed", "not configured"}
          /\ qresult.outcome # "not configured" =>
                (qresult.description = qargs.description /\ qresult.query = qargs.sql_query)
          /\ qresult.outcome = "success" =>
                /\ Len(qdb) = 1 /\ qdb[1].ok /\ qdb[1].sql = qargs.sql_query
                /\ qconn = "closed"
                /\ (qdb[1].how = "fetch") <=>
                      (\E kw \in {kw_select, kw_with} : BeginsWith(strip(qargs.sql_query), kw))

\* the statement failed in the database and the call returned the failure
C20_Witness ==
    /\ qpc = "done"
    /\ qresult.kind = "returned" /\ qresult.outcome = "failed"
    /\ qresult.detail = "PostgresError"
    /\ qconn = "closed"

---------------------------------------------------------------------------
(* Properties of the approval graph                                        *)

LastMessage == messages[Len(messages)]
HasToolCalls(m) == m.type = "ai" /\ m.tool_calls # <<>>
IsProtected(name) == \E i \in 1..Len(protected_tools) : protected_tools[i] = name
HasProtectedCall(m) == \E i \in 1..Len(m.tool_calls) : IsProtected(m.tool_calls[i].name)
Resumed == via \in {"fresh", "duplicate"}

\* A decision that approves the pending call: continue (or its shorthand),
\* or update with data that parses as JSON.
Approves(d) ==
    \/ d.action \in {"continue", "c", "C"}
    \/ d.action = "update" /\ ~d.data.is_none /\ d.data.text \in DOMAIN JsonValue

\* C1: whatever decision is delivered to the review node, it routes to the
\* tools node only for continue and for update with valid JSON; every other
\* tag, exit and unrecognized tags included, does not reach the tools node.
C1_OnlyApprovalsReachTools ==
    (Resumed /\ anode = "tools") => Approves(last_decision)

C3_ExitNeverExecutes ==
    \A i \in 1..Len(executed) : executed[i].decision # "exit"

\* C4: the router selects the review node exactly for a message with tool
\* calls of which one is protected while yolo_mode is false; a message with
\* tool calls goes to the tools node with no interrupt when yolo_mode is true
\* or none of its calls is protected; a message without tool calls goes to
\* END; no interrupt is ever raised while yolo_mode is true.
C4_RouterBranches ==
    /\ via = "router" =>
          /\ (anode = "human_query_review_node")
                <=> (HasToolCalls(LastMessage) /\ ~yolo_mode /\ HasProtectedCall(LastMessage))
          /\ (HasToolCalls(LastMessage) /\ (yolo_mode \/ ~HasProtectedCall(LastMessage)))
                => (anode = "tools" /\ interrupts = <<>>)
          /\ ~HasToolCalls(LastMessage) => anode = "END"
    /\ interrupts # <<>> => (~yolo_mode /\ HasProtectedCall(LastMessage))
    /\ yolo_mode => interrupted = {}

\* auto-approve: a protected call goes straight to the tools node
C4_Witness ==
    /\ yolo_mode /\ via = "router" /\ anode = "tools"
    /\ HasProtectedCall(LastMessage)

\* C7: no tool call is executed on the strength of a duplicate of a resume
\* that was already delivered: the duplicate is a no-op or an error.
C7_DuplicateResumeExecutesNothing ==
    \A i \in 1..Len(executed) : executed[i].via # "duplicate"

\* An update decision whose data is absent or is not JSON.
BadUpdate(d) ==
    d.action = "update" /\ (d.data.is_none \/ d.data.text \notin DOMAIN JsonValue)

C14_NoUnhandledFault ==
    client # "raised"

\* No tool call was executed twice, and every LLM invocation left exactly one
\* AI message in the history.
EachStepRanOnce ==
    /\ \A i, j \in 1..Len(executed) :
           executed[i].call.id = executed[j].call.id => i = j
    /\ Cardinality({ i \in 1..Len(messages) : messages[i].type = "ai" }) = plans

Resolves(a) ==
    /\ interrupts # <<>> /\ interrupts' = <<>>
    /\ Resumed' /\ last_decision'.action = a

\* C18: a continue decision leaves the state as it is and sends the run to
\* the tools node, the call that ends the pending message being the one shown
\* in the interrupt payload (name, id, arguments).  An update decision with
\* valid JSON replaces the pending AI message in place (same position, same
\* id, same content, no message added) by one whose only call has the id and
\* name of the payload's call and the parsed data as arguments.  The tools
\* node then executes the calls of that last message, as they are.
C18_ApprovedCallIsExecuted ==
    /\ [][ Resolves("continue") =>
              /\ messages' = messages
              /\ anode' = "tools"
              /\ LastMessage.tool_calls[Len(LastMessage.tool_calls)] = interrupts[1].tool_call
          ]_vars
    /\ [][ Resolves("update") =>
              /\ anode' = "tools"
              /\ Len(messages') = Len(messages)
              /\ \A i \in 1..(Len(messages) - 1) : messages'[i] = messages[i]
              /\ LastMessage'.type = "ai"
              /\ LastMessage'.id = LastMessage.id
              /\ LastMessage'.content = LastMessage.content
              /\ LastMessage'.tool_calls =
                    <<[id   |-> interrupts[1].tool_call.id,
                       name |-> interrupts[1].tool_call.name,
                       args |-> JsonValue[last_decision'.data.text]]>>
          ]_vars
    /\ [][ (anode = "tools" /\ anode' = "assistant_node") =>
              /\ Len(executed') = Len(executed) + Len(LastMessage.tool_calls)
              /\ \A i \in 1..Len(executed) : executed'[i] = executed[i]
              /\ \A j \in 1..Len(LastMessage.tool_calls) :
                     /\ executed'[Len(executed) + j].call = LastMessage.tool_calls[j]
                     /\ executed'[Len(executed) + j].msg = LastMessage.id
          ]_vars

\* an edited call was executed with the parsed data as its arguments
C18_Witness ==
    \E i \in 1..Len(executed) :
        /\ executed[i].decision = "update"
        /\ executed[i].call.args = JsonValue[ValidJson]
        /\ executed[i].call.name = "executeQuery"

\* A step in which a resume delivers a decision with tag a to the pending
\* interrupt.
Delivers(a) ==
    interrupts # <<>> /\ Resumed' /\ last_decision'.action = a

\* The step executes nothing, appends one tool message that carries the
\* pending call's id and name and the given content, and goes to the
\* planning node.
AppendsRecord(content) ==
    /\ executed' = executed
    /\ anode' = "assistant_node"
    /\ interrupts' = <<>>
    /\ Len(messages') = Len(messages) + 1
    /\ \A i \in 1..Len(messages) : messages'[i] = messages[i]
    /\ LastMessage'.type = "tool"
    /\ LastMessage'.tool_call_id = interrupts[1].tool_call.id
    /\ LastMessage'.name = interrupts[1].tool_call.name
    /\ LastMessage'.content = content

\* C19 as claimed: every feedback decision and every reject decision appends
\* exactly one synthetic tool record for the pending call and returns control
\* to the planning node, executing nothing.
C19_FeedbackAndRejectAppendRecord ==
    [][ (Delivers("feedback") \/ Delivers("reject")) =>
           AppendsRecord(IF last_decision'.action = "reject"
                         THEN RejectionText ELSE last_decision'.data.text) ]_vars

\* No call was released by a feedback or a reject decision, and neither
\* decision leaves the run at the tools node.
NotExecutedByRefusal ==
    /\ \A i \in 1..Len(executed) : executed[i].decision \notin {"feedback", "reject"}
    /\ (Resumed /\ last_decision.action \in {"feedback", "reject"}) => anode # "tools"

\* C19 as amended: a reject decision, and a feedback decision that carries
\* data, execute nothing, append exactly one tool record with the pending
\* call's id and name (the fixed rejection text, or the feedback text) and go
\* to the planning node.  A feedback decision without data makes the review
\* node raise ValueError: nothing is executed or appended and the thread stays
\* suspended at the review node.  In no case is the tools node reached.
C19_RefusalAppendsRecordOrRaises ==
    /\ [] NotExecutedByRefusal
    /\ [][ Delivers("reject") => AppendsRecord(RejectionText) ]_vars
    /\ [][ (Delivers("feedback") /\ ~last_decision'.data.is_none) =>
              AppendsRecord(last_decision'.data.text) ]_vars
    /\ [][ (Delivers("feedback") /\ last_decision'.data.is_none) =>
              /\ fault' = "ValueError"
              /\ anode' = "human_query_review_node"
              /\ messages' = messages
              /\ executed' = executed
              /\ interrupts' = interrupts
          ]_vars

\* the rejection record is the last message and the planner is next
C19_Witness ==
    /\ Resumed /\ last_decision.action = "reject"
    /\ anode = "assistant_node"
    /\ LastMessage.type = "tool" /\ LastMessage.content = RejectionText
    /\ LastMessage.name = "executeQuery"

---------------------------------------------------------------------------
(* The messages history (graph.py)                                         *)

\* C21: across any run of the agent graph (planning, review with any
\* decision, tool execution, resume, a new input) the length of messages
\* never decreases, and no record is deleted: every position of the history
\* keeps the id of its record (a step appends records or replaces one in
\* place).
C21_HistoryNeverShrinks ==
    [][ /\ Len(messages') >= Len(messages)
        /\ \A i \in 1..Len(messages) : messages'[i].id = messages[i].id ]_vars

\* An update has replaced the pending AI message in place: the history has
\* the length it had, its last record carries the edited call.
C21_Witness ==
    /\ last_decision.action = "update"
    /\ anode = "tools"
    /\ Len(messages) = 2
    /\ messages[2].type = "ai"
    /\ messages[2].tool_calls[1].args = JsonValue[ValidJson]

---------------------------------------------------------------------------
(* Further properties of the retry workflow                                *)

\* The step of a node of the retry graph (a node transition was counted).
ParseStep == rnode = "parse" /\ rsteps' = rsteps + 1
MaybeRetryStep == rnode = "maybe_retry" /\ rsteps' = rsteps + 1

\* C22: whenever the tool result parse_tool_result reads is a success (a
\* dict payload), the node leaves error empty and data and last_good equal to
\* the payload, and the run ends at END; so at the end of a run whose last
\* call succeeded no error of an earlier attempt is left.
C22_SuccessClearsError ==
    /\ [][ (ParseStep /\ ~IsFailure(LastResult)) =>
              /\ "error" \in DOMAIN state' /\ state'["error"] = EmptyDict
              /\ state'["data"] = LastResult.content.value
              /\ state'["last_good"] = LastResult.content.value
              /\ rnode' = "END"
          ]_vars
    /\ [][ (ParseStep /\ IsFailure(LastResult)) =>
              /\ state'["error"] # EmptyDict
              /\ rnode' # "END"
          ]_vars

\* a call succeeded after two failed attempts, and the error they left is gone
C22_Witness ==
    /\ rnode = "END" /\ ~IsFailure(LastResult)
    /\ Attempts = 2 /\ Len(ToolResults) = 3
    /\ IsFailure(ToolResults[1]) /\ IsFailure(ToolResults[2])
    /\ state["error"] = EmptyDict
    /\ state["data"] = LastResult.content.value

ToolCalls == SelectSeq(Messages, LAMBDA m : m.type = "tool_call")

\* What holds whenever maybe_retry or the tools node is about to run.
RetryEntered ==
    /\ rnode = "maybe_retry" =>
          /\ HasError
          /\ TransientClass(ErrorText)
          /\ Attempts < MaxAttempts
    /\ rnode = "tools" =>
          /\ Messages # <<>>
          /\ Messages[Len(Messages)].type = "tool_call"
          /\ Len(ToolCalls) = invoked + 1
    /\ rnode # "ToolNodeError"

\* C26: maybe_retry is entered only when the error is retryable and
\* attempts < max_attempts; every execution of it increments attempts by
\* exactly 1 and appends exactly one new tool call (its give-up branch, which
\* returns only attempts, is never taken), then the edge to tools follows; the
\* tools node always finds a call that was not executed yet.
C26_RetryAlwaysReissues ==
    /\ [] RetryEntered
    /\ [][ MaybeRetryStep =>
              /\ Get(state', "attempts", 0) = Attempts + 1
              /\ Get(state', "messages", <<>>) = Append(Messages, tool_call_msg(state))
              /\ rnode' = "tools"
          ]_vars

\* maybe_retry has run twice and the tools node is about to execute the
\* call the second run appended
C26_Witness ==
    /\ rnode = "tools"
    /\ Attempts = 2
    /\ Len(ToolCalls) = 3 /\ invoked = 2

\* The last_good values a caller supplies in the input of a run.
InputLastGood ==
    { s["last_good"] : s \in { x \in RetryInputs : "last_good" \in DOMAIN x } }

\* C29: last_good is written only by the success path of parse_tool_result,
\* whose step ends the run at END; so when repair runs, a last_good it finds
\* is the one supplied in the input of the run (no call has succeeded), and
\* in a run whose input carries no last_good repair returns the placeholder
\* (note "unavailable").
C29_StaleOnlyFromInput ==
    /\ [][ (Get(state', "last_good", EmptyDict) # Get(state, "last_good", EmptyDict)) =>
              /\ ParseStep /\ ~IsFailure(LastResult)
              /\ rnode' = "END"
          ]_vars
    /\ [][ (RepairStep /\ rnode' = "END") =>
              /\ \A i \in 1..Len(ToolResults) : IsFailure(ToolResults[i])
              /\ IF "last_good" \in DOMAIN state
                 THEN /\ state["last_good"] \in InputLastGood
                      /\ "stale" \in DOMAIN state'["data"]
                 ELSE /\ "stale" \notin DOMAIN state'["data"]
                      /\ state'["data"]["note"] = Unavailable
                      /\ state'["data"]["price"] = "None"
          ]_vars

\* a run without last_good in its input gave up after a retry and repair
\* returned the placeholder
C29_Witness ==
    /\ rnode = "END" /\ IsFailure(LastResult)
    /\ Attempts >= 1
    /\ "last_good" \notin DOMAIN state
    /\ state["data"]["note"] = Unavailable

---------------------------------------------------------------------------
(* The recursion limit of a run (demo-app-chat.py)                         *)

\* C23: a run performs at most recursion_limit (25) node transitions; a run
\* whose routing cycles (the LLM keeps proposing tool calls) is stopped when
\* the bound is used up, by an error of its own kind (GraphRecursionError),
\* and that error ends the run only: the client's process goes on.
C23_LimitStopsRunNotProcess ==
    /\ asteps <= recursion_limit
    /\ (anode \in {"assistant_node", "tools"} /\ asteps = recursion_limit /\ fault # "none")
          => fault = "GraphRecursionError"
    /\ fault = "GraphRecursionError" => client = "running"

---------------------------------------------------------------------------
(* The approval prompt of the chat client (demo-app-chat.py)               *)

\* C24: the approval prompt accepts c as shorthand for continue, as its
\* instructions say: c typed at the prompt is not refused (it ends the prompt
\* loop and the graph is resumed with an approving decision).
C24_ShorthandAccepted ==
    TYPED_C \notin refused

\* The actions the client may deliver.
ClientActions == {"continue", "update", "feedback", "reject"}

\* The decisions delivered so far and the decisions tool calls ran under.
OnlyClientActions ==
    /\ last_decision.action \in ClientActions \cup {NoDecision.action}
    /\ \A i \in 1..Len(executed) :
           executed[i].decision \in {"continue", "update", NoDecision.action}
    /\ \A t \in refused : lower(strip(t)) \notin valid_actions

\* C25: every decision the chat client delivers through Command(resume=...)
\* has an action in {continue, update, feedback, reject}, whatever the user
\* types: a text that is not a valid action is refused and the prompt
\* repeated with nothing else changed, and exit ends the session without
\* resuming the graph; so no tool call runs under the review node's default
\* branch.
C25_ClientDeliversOnlyValidActions ==
    /\ [] OnlyClientActions
    /\ [][ (review_entry' = "again") => last_decision'.action \in ClientActions ]_vars
    /\ [][ (refused' # refused) =>
              UNCHANGED <<messages, anode, interrupts, last_decision, executed, fault,
                          review_entry, client>> ]_vars
    /\ [][ (client' = "returned" /\ interrupts # <<>>) =>
              UNCHANGED <<messages, anode, interrupts, last_decision, executed, fault,
                          review_entry>> ]_vars

\* c, yes and an empty line were refused, then exit ended the session with
\* the protected call still pending and nothing executed
C25_Witness ==
    /\ client = "returned"
    /\ interrupts # <<>>
    /\ refused = {TYPED_C, TYPED_YES, <<>>}
    /\ executed = <<>>
    /\ last_decision = NoDecision

---------------------------------------------------------------------------
(* The interrupt payload and the frame of the agent graph (graph.py)       *)

\* C27: whenever the review node raises an interrupt, the tool call placed in
\* its payload (the call update, feedback and reject act on) is a call whose
\* name is in protected_tools.
C27_PayloadCallIsProtected ==
    \A i \in 1..Len(interrupts) : IsProtected(interrupts[i].tool_call.name)

\* C28: no node, router or Command patch changes yolo_mode or
\* protected_tools: every step that is not the input of a new run (the nodes
\* with their routing, the suspension, a resume with any decision, a
\* duplicated resume) leaves both as they were.
C28_SettingsKeptThroughRun ==
    [][ (via' # "start") =>
            /\ yolo_mode' = yolo_mode
            /\ protected_tools' = protected_tools ]_vars

\* a thread that reviews both tools was suspended and resumed, its call was
\* executed and the next plan made, with the settings of its input
C28_Witness ==
    /\ ~yolo_mode
    /\ protected_tools = <<"executeQuery", "assignFilingTool">>
    /\ plans = 2
    /\ \E i \in 1..Len(executed) : executed[i].via = "fresh"

=============================================================================
